---- MODULE Spec2Model ----
(***************************************************************************)
(* A model of the voice-overs-ai narration pipeline:                       *)
(*   text_processor.py  clean_text, split_into_sentences,                  *)
(*                      intelligent_text_splitting, auto_ingest_text_file  *)
(*   story_narrator.py  process_war_story, batch_process_stories,          *)
(*                      process_text_file_directly                         *)
(*   audio_generator.py generate_segment_audio, concatenate_segments       *)
(*   main.py            auto_mode, manual_mode                             *)
(* A Python str is a sequence of one-character strings; a dict is a        *)
(* function whose DOMAIN is the set of keys present.                       *)
(***************************************************************************)
EXTENDS Integers, Sequences, FiniteSets, TLC

VARIABLES
    pc,              \* position of the running entry point
    entry,           \* the entry point that is running
    text,            \* str argument of clean_text / intelligent_text_splitting
    target_length,   \* int argument of intelligent_text_splitting
    cleaned,         \* clean_text(text)
    recleaned,       \* clean_text(clean_text(text))
    segments,        \* value returned by intelligent_text_splitting
    story_data,      \* process_war_story: the story document (a dict)
    story_name,      \* process_war_story: the name of the output files
    seg_index,       \* process_war_story: enumerate's i, the segments iterated so far
    generated_files, \* process_war_story: the list of saved segment paths
    returned,        \* the value process_war_story returned
    events,          \* the calls made so far: generate_segment_audio and ta.save
    disk,            \* the audio files on disk: path -> samples
    fs,              \* the reference-audio paths that exist
    sr,              \* self.model.sr, the sample rate of the TTS model
    VOICE_PRESETS,   \* config.VOICE_PRESETS, the module-level dict
    json_files,      \* batch_process_stories: the files the glob found
    file_idx,        \* batch_process_stories: files iterated so far
    results,         \* batch_process_stories: the dict being filled
    failed,          \* the stems of the documents whose processing raised
    input_file,      \* main / process_text_file_directly: the text file
    voice_prompt,    \* main: the --voice-prompt argument
    voice_style_pattern, \* auto_ingest_text_file: the pattern argument
    voice_style,     \* manual_mode: the --voice-style argument
    audio_files      \* concatenate_segments: the list argument

textVars == <<text, target_length, cleaned, recleaned, segments>>
storyVars == <<story_data, story_name, seg_index, generated_files, returned>>
ioVars == <<events, disk>>
envVars == <<fs, sr, VOICE_PRESETS>>
batchVars == <<json_files, file_idx, results, failed>>
mainVars == <<input_file, voice_prompt, voice_style_pattern, voice_style>>
vars == <<pc, entry, textVars, storyVars, ioVars, envVars, batchVars, mainVars,
          audio_files>>

----------------------------------------------------------------------------
(* Characters *)

\* U+201C, U+201D, U+2018, U+2019: the curly quotation marks
LDQUO == "LDQUO"
RDQUO == "RDQUO"
LSQUO == "LSQUO"
RSQUO == "RSQUO"
CurlyQuotes == {LDQUO, RDQUO, LSQUO, RSQUO}

\* characters matched by \s and removed by str.strip()
Whitespace == {" ", "\t", "\n", "\r"}

\* the character class [.!?]
Punctuation == {".", "!", "?"}

----------------------------------------------------------------------------
(* Python str and re primitives *)

RECURSIVE RunLen(_, _, _)
\* length of the run of characters of class C that starts at s[i]
RunLen(s, i, C) ==
    IF i > Len(s) \/ s[i] \notin C THEN 0 ELSE 1 + RunLen(s, i + 1, C)

RECURSIVE SubRun(_, _, _, _, _)
\* re.sub(c{min,}, repl, s) from position i: leftmost greedy runs of c
SubRun(s, i, c, min, repl) ==
    IF i > Len(s) THEN <<>>
    ELSE LET n == RunLen(s, i, {c}) IN
         IF n >= min THEN repl \o SubRun(s, i + n, c, min, repl)
         ELSE <<s[i]>> \o SubRun(s, i + 1, c, min, repl)

\* whether old occurs in s at position i
MatchAt(s, i, old) ==
    /\ i + Len(old) - 1 <= Len(s)
    /\ \A k \in 1..Len(old) : s[i + k - 1] = old[k]

RECURSIVE ReplaceFrom(_, _, _, _)
\* str.replace(old, new) from position i: leftmost non-overlapping occurrences
ReplaceFrom(s, i, old, new) ==
    IF i > Len(s) THEN <<>>
    ELSE IF MatchAt(s, i, old) THEN new \o ReplaceFrom(s, i + Len(old), old, new)
    ELSE <<s[i]>> \o ReplaceFrom(s, i + 1, old, new)

StrReplace(s, old, new) == ReplaceFrom(s, 1, old, new)

RECURSIVE SubSpaceBeforePunct(_, _)
\* re.sub(r"\s+([.!?])", r"\1", s) from position i
SubSpaceBeforePunct(s, i) ==
    IF i > Len(s) THEN <<>>
    ELSE LET n == RunLen(s, i, Whitespace) IN
         IF n > 0 /\ i + n <= Len(s) /\ s[i + n] \in Punctuation
         THEN <<s[i + n]>> \o SubSpaceBeforePunct(s, i + n + 1)
         ELSE <<s[i]>> \o SubSpaceBeforePunct(s, i + 1)

RECURSIVE Flatten(_)
\* the concatenation of a list of sequences
Flatten(ss) == IF ss = <<>> THEN <<>> ELSE Head(ss) \o Flatten(Tail(ss))

RECURSIVE LStrip(_)
LStrip(s) ==
    IF s # <<>> /\ Head(s) \in Whitespace THEN LStrip(Tail(s)) ELSE s

RECURSIVE RStrip(_)
RStrip(s) ==
    IF s # <<>> /\ s[Len(s)] \in Whitespace
    THEN RStrip(SubSeq(s, 1, Len(s) - 1)) ELSE s

\* str.strip()
Strip(s) == RStrip(LStrip(s))

----------------------------------------------------------------------------
(* TextProcessor.clean_text *)

\* the literal of text_processor.py line 25, which Python reads as the
\* triple-quoted string  , "'").replace(
QuoteLiteral ==
    <<",", " ", "\"", "'", "\"", ")", ".", "r", "e", "p", "l", "a", "c", "e", "(">>

\* lines 24-25 as they stand in the source: the double quote is replaced by
\* itself, and QuoteLiteral by an apostrophe; no curly mark is touched
NormalizeQuotes(s) ==
    LET t1 == StrReplace(StrReplace(s, <<"\"">>, <<"\"">>), <<"\"">>, <<"\"">>)
    IN  StrReplace(t1, QuoteLiteral, <<"'">>)

clean_text(s) ==
    LET t1 == SubRun(s, 1, "\n", 3, <<"\n", "\n">>)
        t2 == SubRun(t1, 1, " ", 2, <<" ">>)
        t3 == NormalizeQuotes(t2)
        t4 == SubSpaceBeforePunct(t3, 1)
    IN  Strip(t4)

----------------------------------------------------------------------------
(* TextProcessor.split_into_sentences *)

RECURSIVE SplitAfterPunct(_, _, _)
\* re.split(r"(?<=[.!?])\s+", s): cur is the piece being read, i the position
SplitAfterPunct(s, i, cur) ==
    IF i > Len(s) THEN <<cur>>
    ELSE LET n == RunLen(s, i, Whitespace) IN
         IF n > 0 /\ i > 1 /\ s[i - 1] \in Punctuation
         THEN <<cur>> \o SplitAfterPunct(s, i + n, <<>>)
         ELSE SplitAfterPunct(s, i + 1, Append(cur, s[i]))

\* [f(x).strip() for x in pieces if x.strip()]
StripNonEmpty(pieces) ==
    LET kept == SelectSeq(pieces, LAMBDA p : Strip(p) # <<>>)
    IN  [k \in 1..Len(kept) |-> Strip(kept[k])]

split_into_sentences(s) == StripNonEmpty(SplitAfterPunct(s, 1, <<>>))

RECURSIVE SplitOn(_, _, _, _)
\* str.split(sep) for a non-empty separator
SplitOn(s, i, sep, cur) ==
    IF i > Len(s) THEN <<cur>>
    ELSE IF MatchAt(s, i, sep) THEN <<cur>> \o SplitOn(s, i + Len(sep), sep, <<>>)
    ELSE SplitOn(s, i + 1, sep, Append(cur, s[i]))

\* [p.strip() for p in text.split("\n\n") if p.strip()]
Paragraphs(s) == StripNonEmpty(SplitOn(s, 1, <<"\n", "\n">>, <<>>))

----------------------------------------------------------------------------
(* TextProcessor.intelligent_text_splitting *)

\* the loop state: the segments appended so far and current_segment
SplitState(segs, cur) == [segments |-> segs, current_segment |-> cur]

\* AddSentence without the strip() of the flushed segment
AddSentenceUnstripped(acc, sentence, target) ==
    IF /\ Len(acc.current_segment) + Len(sentence) > target
       /\ acc.current_segment # <<>>
    THEN SplitState(Append(acc.segments, acc.current_segment),
                    sentence \o <<" ">>)
    ELSE SplitState(acc.segments, acc.current_segment \o sentence \o <<" ">>)

\* lines 69-76: one sentence of a paragraph that is split by sentences
AddSentence(acc, sentence, target) ==
    IF /\ Len(acc.current_segment) + Len(sentence) > target
       /\ acc.current_segment # <<>>
    THEN SplitState(Append(acc.segments, Strip(acc.current_segment)),
                    sentence \o <<" ">>)
    ELSE SplitState(acc.segments, acc.current_segment \o sentence \o <<" ">>)

\* AddParagraph that starts the new segment empty after a flush
AddParagraphDropsOnFlush(acc, paragraph, target) ==
    IF /\ Len(acc.current_segment) + Len(paragraph) > target
       /\ acc.current_segment # <<>>
    THEN SplitState(Append(acc.segments, Strip(acc.current_segment)), <<>>)
    ELSE SplitState(acc.segments,
                    acc.current_segment \o paragraph \o <<"\n", "\n">>)

\* AddParagraph that measures the paragraph alone, not the accumulator
AddParagraphIgnoresAccumulator(acc, paragraph, target) ==
    IF /\ Len(paragraph) > target
       /\ acc.current_segment # <<>>
    THEN SplitState(Append(acc.segments, Strip(acc.current_segment)),
                    paragraph \o <<"\n", "\n">>)
    ELSE SplitState(acc.segments,
                    acc.current_segment \o paragraph \o <<"\n", "\n">>)

\* lines 79-86: one paragraph that is kept whole
AddParagraph(acc, paragraph, target) ==
    IF /\ Len(acc.current_segment) + Len(paragraph) > target
       /\ acc.current_segment # <<>>
    THEN SplitState(Append(acc.segments, Strip(acc.current_segment)),
                    paragraph \o <<"\n", "\n">>)
    ELSE SplitState(acc.segments,
                    acc.current_segment \o paragraph \o <<"\n", "\n">>)

RECURSIVE AddSentences(_, _, _, _)
\* for sentence in sentences, from the k-th on
AddSentences(acc, sentences, k, target) ==
    IF k > Len(sentences) THEN acc
    ELSE AddSentences(AddSentence(acc, sentences[k], target), sentences, k + 1, target)

\* len(paragraph) > target_length * 1.5, in integers
IsLongParagraph(paragraph, target) == 2 * Len(paragraph) > 3 * target

\* the body of "for paragraph in paragraphs"
ProcessParagraph(acc, paragraph, target) ==
    IF IsLongParagraph(paragraph, target)
    THEN AddSentences(acc, split_into_sentences(paragraph), 1, target)
    ELSE AddParagraph(acc, paragraph, target)

RECURSIVE ProcessParagraphs(_, _, _, _)
ProcessParagraphs(acc, paragraphs, k, target) ==
    IF k > Len(paragraphs) THEN acc
    ELSE ProcessParagraphs(ProcessParagraph(acc, paragraphs[k], target),
                           paragraphs, k + 1, target)

\* lines 88-90: add any remaining content
FinalFlush(acc) ==
    IF Strip(acc.current_segment) # <<>>
    THEN Append(acc.segments, Strip(acc.current_segment))
    ELSE acc.segments

intelligent_text_splitting(s, target) ==
    FinalFlush(ProcessParagraphs(SplitState(<<>>, <<>>),
                                 Paragraphs(clean_text(s)), 1, target))

----------------------------------------------------------------------------
(* config.py, and Python values *)

\* Python's None, where a str is expected
None == "None"

\* the empty dict
EmptyDict == <<>>

\* dict.get(key, default)
Get(d, key, default) == IF key \in DOMAIN d THEN d[key] ELSE default

\* VOICE_PRESETS as config.py defines it, in tenths
InitialVoicePresets ==
    [neutral |-> [exaggeration |-> 5, cfg_weight |-> 5],
     calm    |-> [exaggeration |-> 3, cfg_weight |-> 7]]

DEFAULT_VOICE_PATTERN == <<"neutral", "calm", "neutral">>

DEFAULT_SEGMENT_LENGTH == 250

\* DEFAULT_PAUSE_DURATION = 0.5, in tenths of a second
DEFAULT_PAUSE_DURATION == 5

DEFAULT_OUTPUT_DIR == "voice_output"

----------------------------------------------------------------------------
(* audio_generator.py *)

\* the external TTS model: the samples it returns for a text, one sample per
\* character, none of them silent
ModelGenerate(txt) == [k \in 1..Len(txt) |-> Len(txt)]

\* the dict objects a call of generate_segment_audio can reach, by name: the
\* dicts held by VOICE_PRESETS under their keys and the caller's custom_params
CallHeap(presets, custom_params) == ("custom_params" :> custom_params) @@ presets

\* line 50: VOICE_PRESETS.get(voice_style, VOICE_PRESETS["neutral"]), the
\* object found
PresetObject(presets, style) ==
    IF style \in DOMAIN presets THEN style ELSE "neutral"

\* params bound to the preset object itself, no copy made
NoCopy(heap, obj) == [heap |-> heap, obj |-> obj]

\* line 50: .copy(), a new object "params" with the contents of obj
CopyDict(heap, obj) == [heap |-> ("params" :> heap[obj]) @@ heap, obj |-> "params"]

\* line 54: obj.update(other), written into the object obj
UpdateDict(heap, obj, other) == [heap EXCEPT ![obj] = heap[other] @@ heap[obj]]

\* lines 49-54: the objects after params was built, and which one params is
ParamsHeap(presets, style, custom_params) ==
    LET copied == CopyDict(CallHeap(presets, custom_params),
                           PresetObject(presets, style))
    IN  IF DOMAIN custom_params # {}
        THEN [heap |-> UpdateDict(copied.heap, copied.obj, "custom_params"),
              obj |-> copied.obj]
        ELSE copied

\* lines 49-54: the preset named by the style (the "neutral" preset for an
\* unknown name), copied, with the overrides laid over it
ResolveParams(presets, style, custom_params) ==
    LET after == ParamsHeap(presets, style, custom_params)
    IN  after.heap[after.obj]

\* VOICE_PRESETS as the call leaves it
PresetsAfterCall(presets, style, custom_params) ==
    LET after == ParamsHeap(presets, style, custom_params)
    IN  [k \in DOMAIN presets |-> after.heap[k]]

\* the caller's custom_params as the call leaves it
CustomParamsAfterCall(presets, style, custom_params) ==
    ParamsHeap(presets, style, custom_params).heap["custom_params"]

\* lines 56-62: the audio_prompt_path keyword handed to model.generate, None
\* when the call is made without one
PromptForModel(audio_prompt_path) ==
    IF audio_prompt_path # None /\ audio_prompt_path # ""
    THEN audio_prompt_path ELSE None

\* AudioGenerator.generate_segment_audio: the call it makes on the model
generate_segment_audio(presets, txt, style, audio_prompt_path, custom_params) ==
    [text |-> txt,
     voice_style |-> style,
     audio_prompt_path |-> audio_prompt_path,
     custom_params |-> custom_params,
     params |-> ResolveParams(presets, style, custom_params),
     presets_after |-> PresetsAfterCall(presets, style, custom_params),
     custom_params_after |-> CustomParamsAfterCall(presets, style, custom_params),
     model_prompt |-> PromptForModel(audio_prompt_path)]

\* int(pause_duration * self.model.sr)
PauseSamples(rate) == (DEFAULT_PAUSE_DURATION * rate) \div 10

\* torch.zeros(1, pause_samples)
Pause(rate) == [k \in 1..PauseSamples(rate) |-> 0]

\* line 89: "if file_path != audio_files[-1]", a comparison of path values
PauseFollows(files, k) == files[k] # files[Len(files)]

RECURSIVE LoadWithPauses(_, _, _, _)
\* lines 83-92: the list audio_tensors from the k-th file on
LoadWithPauses(files, k, store, rate) ==
    IF k > Len(files) THEN <<>>
    ELSE <<store[files[k]]>>
         \o (IF PauseFollows(files, k) THEN <<Pause(rate)>> ELSE <<>>)
         \o LoadWithPauses(files, k + 1, store, rate)

\* the tensor concatenate_segments saves: torch.cat(audio_tensors, dim=1)
concatenate_segments(files, store, rate) ==
    Flatten(LoadWithPauses(files, 1, store, rate))

----------------------------------------------------------------------------
(* story_narrator.py: process_war_story *)

RECURSIVE Digits(_)
\* the decimal digits of n >= 0
Digits(n) == IF n < 10 THEN <<n>> ELSE Digits(n \div 10) \o <<n % 10>>

RECURSIVE ZeroPad(_, _)
ZeroPad(ds, width) == IF Len(ds) >= width THEN ds ELSE ZeroPad(<<0>> \o ds, width)

\* the format specification 03d
Format03d(n) == ZeroPad(Digits(n), 3)

\* numbering by position among the files produced so far
SegmentNumberFiltered(idx, files) == Len(files) + 1

\* line 107: the number in the file name of the segment at enumerate index idx
SegmentNumber(idx, files) == idx + 1

\* lines 107-108: str(self.output_dir / f"{story_name}_segment_{i+1:03d}.wav")
SegmentPath(name, number) ==
    <<DEFAULT_OUTPUT_DIR, "/", name, "_segment_">> \o Format03d(number) \o <<".wav">>

\* line 116: str(self.output_dir / f"{story_name}_complete.wav")
CompletePath(name) == <<DEFAULT_OUTPUT_DIR, "/", name, "_complete.wav">>

StorySegments(doc) == Get(doc, "segments", <<>>)
GlobalSettings(doc) == Get(doc, "settings", EmptyDict)

\* lines 83-84: "if not segment_text.strip(): continue"
IsSkipped(segment) == Strip(Get(segment, "text", <<>>)) = <<>>

\* the document's style taking precedence over the segment's
SegmentVoiceStyleGlobalFirst(segment, global_settings) ==
    Get(global_settings, "voice_style", Get(segment, "voice_style", "neutral"))

\* lines 88-90
SegmentVoiceStyle(segment, global_settings) ==
    Get(segment, "voice_style", Get(global_settings, "voice_style", "neutral"))

\* lines 91-93
SegmentAudioPrompt(segment, global_settings) ==
    Get(segment, "audio_prompt", Get(global_settings, "audio_prompt", None))

\* line 94
SegmentCustomParams(segment) == Get(segment, "tts_params", EmptyDict)

\* lines 99-104: the call of generate_segment_audio for the segment at idx
SegmentCall(presets, doc, idx) ==
    LET segment == StorySegments(doc)[idx + 1] IN
    generate_segment_audio(presets,
                           Get(segment, "text", <<>>),
                           SegmentVoiceStyle(segment, GlobalSettings(doc)),
                           SegmentAudioPrompt(segment, GlobalSettings(doc)),
                           SegmentCustomParams(segment))

\* the complete file whenever a file was produced, whatever the document asks
WantsFullAudioIgnoresFlag(doc, files) == files # <<>>

\* line 115: story_data.get("create_full_audio", True) and generated_files
WantsFullAudio(doc, files) ==
    Get(doc, "create_full_audio", TRUE) /\ files # <<>>

\* no caller catches
OnRaiseUncaught(caller) == "escaped"

\* an exception raised inside process_war_story: batch_process_stories
\* catches it (lines 168-174), every other caller lets it through
OnRaise(caller) == IF caller = "batch" THEN "caught" ELSE "escaped"

GenerateEvent(idx, call, outcome) ==
    [kind |-> "generate", i |-> idx, call |-> call, outcome |-> outcome]

SaveEvent(path) == [kind |-> "save", path |-> path]

----------------------------------------------------------------------------
(* TextProcessor.auto_ingest_text_file *)

\* the first style of the pattern for every segment
CycledStyleStuck(pattern, cycle_index) == pattern[1]

\* lines 150-153: voice_style_pattern[voice_cycle_index % len(voice_style_pattern)]
CycledStyle(pattern, cycle_index) == pattern[(cycle_index % Len(pattern)) + 1]

\* lines 155-160: the segment object, with a voice_style only if not neutral
StorySegment(segment_text, style) ==
    IF style # "neutral"
    THEN [text |-> Strip(segment_text), voice_style |-> style]
    ELSE [text |-> Strip(segment_text)]

\* lines 165-175, the settings: the global audio prompt only if one is given
IngestSettings(global_audio_prompt) ==
    IF global_audio_prompt # None /\ global_audio_prompt # ""
    THEN [voice_style |-> "neutral", audio_prompt |-> global_audio_prompt]
    ELSE [voice_style |-> "neutral"]

\* the story_data of an existing text file; title and description, which
\* process_war_story only prints, are left out
auto_ingest_text_file(content, target, pattern, global_audio_prompt) ==
    LET segs == intelligent_text_splitting(content, target) IN
    [settings |-> IngestSettings(global_audio_prompt),
     create_full_audio |-> TRUE,
     segments |-> [k \in 1..Len(segs) |->
                      StorySegment(segs[k], CycledStyle(pattern, k - 1))]]

----------------------------------------------------------------------------
(* Bounds and inputs *)

MaxChunks == 3
MaxLen == 5
MaxTarget == 4
MaxSegments == 2
MaxSampleRate == 4
MaxFiles == 3
MaxUnits == 5
MaxPattern == 3
MaxAudioFiles == 3
MaxSplitChunks == 6
MaxCalls == 3

\* all sequences over S of length at most n
SeqsUpTo(S, n) == UNION {[1..k -> S] : k \in 0..n}

\* the pieces the inputs of clean_text are put together from: single
\* characters and the two halves of QuoteLiteral
CleanChunks ==
    {<<"a">>, <<" ">>, <<"\n">>, <<".">>, <<LDQUO>>, <<RSQUO>>,
     SubSeq(QuoteLiteral, 1, 6), SubSeq(QuoteLiteral, 7, 15)}

CleanInputs == {Flatten(cs) : cs \in SeqsUpTo(CleanChunks, MaxChunks)}

SplitAlphabet == {"a", "b", " ", "\n", "."}
\* longer texts, put together from words, a sentence, the space between
\* sentences and the paragraph break
SplitChunks == {<<"a">>, <<"a", "a", ".">>, <<" ">>, <<"\n", "\n">>}
SplitInputs ==
    SeqsUpTo(SplitAlphabet, MaxLen)
    \cup {Flatten(cs) : cs \in SeqsUpTo(SplitChunks, MaxSplitChunks)}
\* a target below zero behaves as zero does: every unit exceeds it
TargetLengths == (-1)..MaxTarget

\* the segments of the story documents: with and without text, blank text,
\* and each optional field present or absent
SegmentShapes ==
    {[text |-> <<"h", "i">>],
     [text |-> <<" ", "y", "o", "!">>, voice_style |-> "calm"],
     [text |-> <<" ", "\n">>, voice_style |-> "calm"],
     [text |-> <<>>],
     [voice_style |-> "calm", audio_prompt |-> "seg.wav"],
     [text |-> <<"h", "i">>, audio_prompt |-> "seg.wav"],
     [text |-> <<"h", "i">>, tts_params |-> [exaggeration |-> 9]],
     [text |-> <<"y", "o", "!">>, voice_style |-> "epic", audio_prompt |-> "",
      tts_params |-> [cfg_weight |-> 1, temperature |-> 8]]}

SettingsShapes ==
    {EmptyDict,
     [voice_style |-> "calm"],
     [audio_prompt |-> "glob.wav"],
     [voice_style |-> "epic", audio_prompt |-> "glob.wav"]}

\* each top-level key present or absent
StoryDocs ==
    {a @@ b @@ c :
        a \in {EmptyDict} \cup {[settings |-> g] : g \in SettingsShapes},
        b \in {EmptyDict} \cup {[create_full_audio |-> f] : f \in BOOLEAN},
        c \in {EmptyDict}
              \cup {[segments |-> ss] : ss \in SeqsUpTo(SegmentShapes, MaxSegments)}}

PromptPaths == {"seg.wav", "glob.wav", "cli.wav"}

\* the contents of the text files: up to MaxUnits sentences, each followed
\* by a space or by a paragraph break
IngestChunks == {<<"a", ".", " ">>, <<"b", ".", "\n", "\n">>}
IngestTexts == {Flatten(cs) : cs \in SeqsUpTo(IngestChunks, MaxUnits)}

\* the voice_style_pattern arguments: the non-empty lists of preset names up
\* to MaxPattern, and one that names a style of no preset
Patterns ==
    (SeqsUpTo({"neutral", "calm"}, MaxPattern) \ {<<>>}) \cup {<<"epic", "neutral">>}

\* the audio files concatenate_segments is given, and what each holds
AudioPaths == {<<"a.wav">>, <<"b.wav">>, <<"c.wav">>}
AudioStore ==
    (<<"a.wav">> :> <<1>>) @@ (<<"b.wav">> :> <<2, 2>>) @@ (<<"c.wav">> :> <<3, 3, 3>>)

\* the stems of the files of a directory, all different
Stems == <<"alpha", "bravo", "charlie", "delta", "echo">>

\* what a *.json file of the directory may hold: text json.load rejects, or
\* a story document
BatchFileShapes ==
    {[loads |-> FALSE, data |-> EmptyDict],
     [loads |-> TRUE, data |-> EmptyDict],
     [loads |-> TRUE, data |-> [segments |-> <<[text |-> <<"h", "i">>]>>]],
     [loads |-> TRUE,
      data |-> [create_full_audio |-> FALSE,
                segments |-> <<[text |-> <<" ">>],
                               [text |-> <<"y", "o", "!">>, voice_style |-> "calm"]>>]]}

\* the list the glob returns: one file per position, the order being the
\* directory's
BatchDirectories ==
    {[k \in 1..Len(fl) |-> [stem |-> Stems[k]] @@ fl[k]] :
        fl \in SeqsUpTo(BatchFileShapes, MaxFiles)}

TextIdle ==
    /\ text = <<>>
    /\ target_length = 0
    /\ cleaned = <<>>
    /\ recleaned = <<>>
    /\ segments = <<>>

StoryIdle ==
    /\ story_data = EmptyDict
    /\ story_name = ""
    /\ seg_index = 0
    /\ generated_files = <<>>
    /\ returned = <<>>

IoIdle == events = <<>> /\ disk = EmptyDict

EnvDefault ==
    /\ fs = {}
    /\ sr = MaxSampleRate
    /\ VOICE_PRESETS = InitialVoicePresets

BatchIdle ==
    /\ json_files = <<>>
    /\ file_idx = 0
    /\ results = EmptyDict
    /\ failed = {}

MainIdle ==
    /\ input_file = EmptyDict
    /\ voice_prompt = None
    /\ voice_style_pattern = <<>>
    /\ voice_style = "neutral"

----------------------------------------------------------------------------
(* The normaliser run on its own output: clean_text, then clean_text again *)

InitClean ==
    /\ pc = "clean"
    /\ entry = "clean_text"
    /\ text \in CleanInputs
    /\ target_length = 0
    /\ cleaned = <<>>
    /\ recleaned = <<>>
    /\ segments = <<>>
    /\ StoryIdle /\ IoIdle /\ EnvDefault /\ BatchIdle /\ MainIdle
    /\ audio_files = <<>>

CleanText ==
    /\ pc = "clean"
    /\ cleaned' = clean_text(text)
    /\ pc' = "cleaned"
    /\ UNCHANGED <<entry, text, target_length, recleaned, segments, storyVars,
                   ioVars, envVars, batchVars, mainVars, audio_files>>

CleanAgain ==
    /\ pc = "cleaned"
    /\ recleaned' = clean_text(cleaned)
    /\ pc' = "recleaned"
    /\ UNCHANGED <<entry, text, target_length, cleaned, segments, storyVars,
                   ioVars, envVars, batchVars, mainVars, audio_files>>

NextClean == CleanText \/ CleanAgain

SpecClean == InitClean /\ [][NextClean]_vars

----------------------------------------------------------------------------
(* The segmenter on its own *)

InitSplit ==
    /\ pc = "split"
    /\ entry = "intelligent_text_splitting"
    /\ text \in SplitInputs
    /\ target_length \in TargetLengths
    /\ cleaned = <<>>
    /\ recleaned = <<>>
    /\ segments = <<>>
    /\ StoryIdle /\ IoIdle /\ EnvDefault /\ BatchIdle /\ MainIdle
    /\ audio_files = <<>>

SplitText ==
    /\ pc = "split"
    /\ segments' = intelligent_text_splitting(text, target_length)
    /\ pc' = "segmented"
    /\ UNCHANGED <<entry, text, target_length, cleaned, recleaned, storyVars,
                   ioVars, envVars, batchVars, mainVars, audio_files>>

NextSplit == SplitText

SpecSplit == InitSplit /\ [][NextSplit]_vars

----------------------------------------------------------------------------
(* StoryNarrator.process_war_story, one loop iteration at a time *)

\* lines 82-112: one iteration of "for i, segment in enumerate(segments)"
\* that raises nothing
ProcessSegment ==
    /\ pc = "loop"
    /\ seg_index < Len(StorySegments(story_data))
    /\ IF IsSkipped(StorySegments(story_data)[seg_index + 1])
       THEN UNCHANGED <<generated_files, events, disk, VOICE_PRESETS>>
       ELSE LET call == SegmentCall(VOICE_PRESETS, story_data, seg_index)
                wav == ModelGenerate(call.text)
                segment_path ==
                    SegmentPath(story_name, SegmentNumber(seg_index, generated_files))
            IN  /\ events' = events \o <<GenerateEvent(seg_index, call, "ok"),
                                         SaveEvent(segment_path)>>
                /\ disk' = (segment_path :> wav) @@ disk
                /\ generated_files' = Append(generated_files, segment_path)
                /\ VOICE_PRESETS' = call.presets_after
    /\ seg_index' = seg_index + 1
    /\ UNCHANGED <<pc, entry, textVars, story_data, story_name, returned,
                   fs, sr, batchVars, mainVars, audio_files>>

\* lines 99-104: the synthesis call raises
SynthesisRaises ==
    /\ pc = "loop"
    /\ seg_index < Len(StorySegments(story_data))
    /\ ~IsSkipped(StorySegments(story_data)[seg_index + 1])
    /\ events' = Append(events,
                        GenerateEvent(seg_index,
                                      SegmentCall(VOICE_PRESETS, story_data, seg_index),
                                      "raised"))
    /\ VOICE_PRESETS' =
           SegmentCall(VOICE_PRESETS, story_data, seg_index).presets_after
    /\ failed' = failed \cup {story_name}
    /\ pc' = OnRaise(entry)
    /\ UNCHANGED <<entry, textVars, storyVars, disk, fs, sr, json_files,
                   file_idx, results, mainVars, audio_files>>

\* line 109: save_audio raises after a synthesis that returned
SaveRaises ==
    /\ pc = "loop"
    /\ seg_index < Len(StorySegments(story_data))
    /\ ~IsSkipped(StorySegments(story_data)[seg_index + 1])
    /\ events' = Append(events,
                        GenerateEvent(seg_index,
                                      SegmentCall(VOICE_PRESETS, story_data, seg_index),
                                      "ok"))
    /\ VOICE_PRESETS' =
           SegmentCall(VOICE_PRESETS, story_data, seg_index).presets_after
    /\ failed' = failed \cup {story_name}
    /\ pc' = OnRaise(entry)
    /\ UNCHANGED <<entry, textVars, storyVars, disk, fs, sr, json_files,
                   file_idx, results, mainVars, audio_files>>

\* lines 114-119: after the loop, the complete file if asked for, and return
FinishStory ==
    /\ pc = "loop"
    /\ seg_index = Len(StorySegments(story_data))
    /\ IF WantsFullAudio(story_data, generated_files)
       THEN /\ disk' = (CompletePath(story_name)
                          :> concatenate_segments(generated_files, disk, sr)) @@ disk
            /\ events' = Append(events, SaveEvent(CompletePath(story_name)))
       ELSE UNCHANGED <<events, disk>>
    /\ returned' = generated_files
    /\ pc' = "returned"
    /\ UNCHANGED <<entry, textVars, story_data, story_name, seg_index,
                   generated_files, envVars, batchVars, mainVars, audio_files>>

\* line 117: concatenate_segments raises
ConcatenateRaises ==
    /\ pc = "loop"
    /\ seg_index = Len(StorySegments(story_data))
    /\ WantsFullAudio(story_data, generated_files)
    /\ failed' = failed \cup {story_name}
    /\ pc' = OnRaise(entry)
    /\ UNCHANGED <<entry, textVars, storyVars, ioVars, envVars, json_files,
                   file_idx, results, mainVars, audio_files>>

InitStory ==
    /\ pc = "loop"
    /\ entry = "process_war_story"
    /\ story_data \in StoryDocs
    /\ story_name = "war_story"
    /\ seg_index = 0
    /\ generated_files = <<>>
    /\ returned = <<>>
    /\ fs \in {{}, PromptPaths}
    /\ sr = MaxSampleRate
    /\ VOICE_PRESETS = InitialVoicePresets
    /\ TextIdle /\ IoIdle /\ BatchIdle /\ MainIdle
    /\ audio_files = <<>>

NextStory ==
    \/ ProcessSegment
    \/ SynthesisRaises
    \/ SaveRaises
    \/ FinishStory
    \/ ConcatenateRaises

SpecStory == InitStory /\ [][NextStory]_vars

----------------------------------------------------------------------------
(* StoryNarrator.batch_process_stories, one document at a time *)

InitBatch ==
    /\ pc = "batch"
    /\ entry = "batch"
    /\ json_files \in BatchDirectories
    /\ file_idx = 0
    /\ results = EmptyDict
    /\ failed = {}
    /\ TextIdle /\ StoryIdle /\ IoIdle /\ EnvDefault /\ MainIdle
    /\ audio_files = <<>>

\* lines 163-169 and 131-138: the next file is loaded and its processing
\* begins, or json.load raises
BatchLoad ==
    /\ pc = "batch"
    /\ file_idx < Len(json_files)
    /\ LET json_file == json_files[file_idx + 1] IN
       /\ story_name' = json_file.stem
       /\ IF json_file.loads
          THEN /\ story_data' = json_file.data
               /\ pc' = "loop"
               /\ UNCHANGED failed
          ELSE /\ failed' = failed \cup {json_file.stem}
               /\ pc' = OnRaise(entry)
               /\ UNCHANGED story_data
    /\ seg_index' = 0
    /\ generated_files' = <<>>
    /\ returned' = <<>>
    /\ UNCHANGED <<entry, textVars, ioVars, envVars, json_files, file_idx,
                   results, mainVars, audio_files>>

\* line 170: results[json_file.stem] = generated_files
BatchRecord ==
    /\ pc = "returned"
    /\ entry = "batch"
    /\ results' = (story_name :> returned) @@ results
    /\ file_idx' = file_idx + 1
    /\ pc' = "batch"
    /\ UNCHANGED <<entry, textVars, storyVars, ioVars, envVars, json_files,
                   failed, mainVars, audio_files>>

\* lines 172-174: except Exception: results[json_file.stem] = []
BatchCatch ==
    /\ pc = "caught"
    /\ results' = (story_name :> <<>>) @@ results
    /\ file_idx' = file_idx + 1
    /\ pc' = "batch"
    /\ UNCHANGED <<entry, textVars, storyVars, ioVars, envVars, json_files,
                   failed, mainVars, audio_files>>

\* lines 156-158 and 176: return results
BatchReturn ==
    /\ pc = "batch"
    /\ file_idx = Len(json_files)
    /\ pc' = "batch_returned"
    /\ UNCHANGED <<entry, textVars, storyVars, ioVars, envVars, batchVars,
                   mainVars, audio_files>>

NextBatch ==
    \/ BatchLoad
    \/ ProcessSegment
    \/ SynthesisRaises
    \/ SaveRaises
    \/ FinishStory
    \/ ConcatenateRaises
    \/ BatchRecord
    \/ BatchCatch
    \/ BatchReturn

SpecBatch == InitBatch /\ [][NextBatch]_vars

----------------------------------------------------------------------------
(* main.py: auto_mode and manual_mode; process_text_file_directly *)

TextFiles ==
    {[exists |-> FALSE, stem |-> "notes", content |-> <<>>]}
    \cup {[exists |-> TRUE, stem |-> "notes", content |-> c] : c \in IngestTexts}

InitMain ==
    /\ pc = "main"
    /\ \/ /\ entry = "auto"
          /\ input_file \in TextFiles
          /\ voice_prompt \in {None, "cli.wav"}
          /\ fs \in {{}, {"cli.wav"}}
          /\ voice_style_pattern = DEFAULT_VOICE_PATTERN
          /\ target_length = DEFAULT_SEGMENT_LENGTH
          /\ voice_style = "neutral"
          /\ text = <<>>
       \/ /\ entry = "manual"
          /\ input_file = EmptyDict
          /\ voice_prompt \in {None, "cli.wav"}
          /\ fs \in {{}, {"cli.wav"}}
          /\ voice_style_pattern = <<>>
          /\ target_length = 0
          /\ voice_style \in {"neutral", "calm"}
          /\ text \in {<<"h", "i">>, <<"y", "o", "!">>}
       \/ /\ entry = "process_text_file_directly"
          /\ input_file \in TextFiles
          /\ voice_prompt = None
          /\ fs = {}
          /\ voice_style_pattern \in Patterns
          /\ target_length \in TargetLengths
          /\ voice_style = "neutral"
          /\ text = <<>>
    /\ cleaned = <<>>
    /\ recleaned = <<>>
    /\ segments = <<>>
    /\ sr = MaxSampleRate
    /\ VOICE_PRESETS = InitialVoicePresets
    /\ StoryIdle /\ IoIdle /\ BatchIdle
    /\ audio_files = <<>>

\* main.py lines 8-22, as far as the call of process_war_story: a missing
\* input file is reported and the function returns; a voice prompt becomes
\* global_audio_prompt only if its path exists
AutoMode ==
    /\ pc = "main"
    /\ entry = "auto"
    /\ IF ~input_file.exists
       THEN /\ pc' = "not_found"
            /\ UNCHANGED <<story_data, story_name>>
       ELSE /\ story_data' =
                   auto_ingest_text_file(
                       input_file.content, target_length, voice_style_pattern,
                       IF voice_prompt # None /\ voice_prompt \in fs
                       THEN voice_prompt ELSE None)
            /\ story_name' = input_file.stem
            /\ pc' = "loop"
    /\ UNCHANGED <<entry, textVars, seg_index, generated_files, returned,
                   ioVars, envVars, batchVars, mainVars, audio_files>>

\* main.py lines 25-34: one segment, the voice prompt passed on as given
ManualMode ==
    /\ pc = "main"
    /\ entry = "manual"
    /\ LET call == generate_segment_audio(VOICE_PRESETS, text, voice_style,
                                          voice_prompt, EmptyDict)
       IN  /\ events' = <<GenerateEvent(0, call, "ok"), SaveEvent(<<"output.wav">>)>>
           /\ disk' = (<<"output.wav">> :> ModelGenerate(call.text)) @@ disk
           /\ VOICE_PRESETS' = call.presets_after
    /\ pc' = "returned"
    /\ UNCHANGED <<entry, textVars, storyVars, fs, sr, batchVars, mainVars,
                   audio_files>>

\* story_narrator.py lines 205-213 with text_processor.py lines 119-186:
\* FileNotFoundError for a missing file, else the document is built
ProcessTextFileDirectly ==
    /\ pc = "main"
    /\ entry = "process_text_file_directly"
    /\ IF ~input_file.exists
       THEN /\ pc' = OnRaise(entry)
            /\ UNCHANGED <<story_data, story_name>>
       ELSE /\ story_data' =
                   auto_ingest_text_file(input_file.content, target_length,
                                         voice_style_pattern, voice_prompt)
            /\ story_name' = input_file.stem
            /\ pc' = "loop"
    /\ UNCHANGED <<entry, textVars, seg_index, generated_files, returned,
                   ioVars, envVars, batchVars, mainVars, audio_files>>

NextMain ==
    \/ AutoMode
    \/ ManualMode
    \/ ProcessTextFileDirectly
    \/ ProcessSegment
    \/ SynthesisRaises
    \/ SaveRaises
    \/ FinishStory
    \/ ConcatenateRaises

SpecMain == InitMain /\ [][NextMain]_vars

----------------------------------------------------------------------------
(* AudioGenerator.concatenate_segments on its own *)

InitAudio ==
    /\ pc = "concatenate"
    /\ entry = "concatenate_segments"
    /\ audio_files \in SeqsUpTo(AudioPaths, MaxAudioFiles)
    /\ disk = AudioStore
    /\ events = <<>>
    /\ sr \in 1..MaxSampleRate
    /\ fs = {}
    /\ VOICE_PRESETS = InitialVoicePresets
    /\ TextIdle /\ StoryIdle /\ BatchIdle /\ MainIdle

\* lines 80-99 for a non-empty list: load, pad, concatenate, save
ConcatenateSegments ==
    /\ pc = "concatenate"
    /\ audio_files # <<>>
    /\ disk' = (<<"out.wav">> :> concatenate_segments(audio_files, disk, sr)) @@ disk
    /\ events' = Append(events, SaveEvent(<<"out.wav">>))
    /\ pc' = "returned"
    /\ UNCHANGED <<entry, textVars, storyVars, envVars, batchVars, mainVars,
                   audio_files>>

\* line 95: torch.cat of an empty list raises
ConcatenateNothing ==
    /\ pc = "concatenate"
    /\ audio_files = <<>>
    /\ pc' = OnRaise(entry)
    /\ UNCHANGED <<entry, textVars, storyVars, ioVars, envVars, batchVars,
                   mainVars, audio_files>>

NextAudio == ConcatenateSegments \/ ConcatenateNothing

SpecAudio == InitAudio /\ [][NextAudio]_vars

----------------------------------------------------------------------------
(* AudioGenerator.generate_segment_audio, called again and again *)

\* the style names of the calls: the two presets and a name that is none
CallStyles == {"neutral", "calm", "epic"}

\* the overrides of the calls: none, one of a preset's keys, and one of a
\* preset's keys together with a key no preset has
CallOverrides ==
    {EmptyDict, [exaggeration |-> 9], [cfg_weight |-> 1, temperature |-> 8]}

InitPresets ==
    /\ pc = "generate"
    /\ entry = "generate_segment_audio"
    /\ TextIdle /\ StoryIdle /\ IoIdle /\ EnvDefault /\ BatchIdle /\ MainIdle
    /\ audio_files = <<>>

\* audio_generator.py lines 30-64: one call, which returns the audio or
\* leaves with the exception model.generate raised
GenerateSegmentAudio ==
    /\ pc = "generate"
    /\ Len(events) < MaxCalls
    /\ \E style \in CallStyles, custom_params \in CallOverrides,
          outcome \in {"ok", "raised"} :
           LET call == generate_segment_audio(VOICE_PRESETS, <<"h", "i">>, style,
                                              None, custom_params)
           IN  /\ events' = Append(events, GenerateEvent(Len(events), call, outcome))
               /\ VOICE_PRESETS' = call.presets_after
    /\ UNCHANGED <<pc, entry, textVars, storyVars, disk, fs, sr, batchVars,
                   mainVars, audio_files>>

NextPresets == GenerateSegmentAudio

SpecPresets == InitPresets /\ [][NextPresets]_vars

----------------------------------------------------------------------------
(* Properties of clean_text *)

\* whether s[i..] starts with n characters of class C
HasRun(s, C, n) == \E i \in 1..Len(s) : RunLen(s, i, C) >= n

NormalForm(s) ==
    /\ \A i \in 1..Len(s) : s[i] \notin CurlyQuotes
    /\ ~HasRun(s, {"\n"}, 3)
    /\ ~HasRun(s, {" "}, 2)
    /\ \A i \in 1..Len(s) - 1 :
           ~(s[i] \in Whitespace /\ s[i + 1] \in Punctuation)
    /\ Strip(s) = s

\* C9: clean_text is idempotent: clean_text(clean_text(x)) = clean_text(x)
\* for every string x.
C9_CleanTextIdempotent == pc = "recleaned" => recleaned = cleaned

\* C10: the output of clean_text is in normal form: it holds no curly
\* quotation mark, no run of 3 or more newlines, no run of 2 or more spaces,
\* no whitespace immediately before '.', '!' or '?', and no leading or
\* trailing whitespace.
C10_CleanTextNormalForm == pc \in {"cleaned", "recleaned"} => NormalForm(cleaned)

----------------------------------------------------------------------------
(* Properties of intelligent_text_splitting *)

RemoveWhitespace(s) == SelectSeq(s, LAMBDA c : c \notin Whitespace)

\* whether u occurs in s as a contiguous piece
IsInfix(u, s) == \E i \in 1..Len(s) + 1 : MatchAt(s, i, u)

RECURSIVE UnitsFrom(_, _, _)
\* the units the loop accumulates: the sentences of a long paragraph, or
\* the whole of a short one
UnitsFrom(paragraphs, k, target) ==
    IF k > Len(paragraphs) THEN <<>>
    ELSE (IF IsLongParagraph(paragraphs[k], target)
          THEN split_into_sentences(paragraphs[k])
          ELSE <<paragraphs[k]>>) \o UnitsFrom(paragraphs, k + 1, target)

Units(s, target) == UnitsFrom(Paragraphs(clean_text(s)), 1, target)

\* C5: intelligent_text_splitting returns for every text and target_length
\* (the state after the call exists for every input: the loops run over the
\* finite lists of paragraphs and sentences); every returned segment is non-empty and has no leading or trailing
\* whitespace; the result is empty exactly when the normalized input is
\* empty; a unit longer than target_length is still emitted.
C5_SplitWellFormed ==
    pc = "segmented" =>
        /\ \A k \in 1..Len(segments) :
               segments[k] # <<>> /\ Strip(segments[k]) = segments[k]
        /\ (segments = <<>>) <=> (clean_text(text) = <<>>)
        /\ \A j \in 1..Len(Units(text, target_length)) :
               LET u == Units(text, target_length)[j] IN
               Len(u) > target_length =>
                   \E k \in 1..Len(segments) : IsInfix(u, segments[k])

\* a run with an oversized unit and a flush inside a sentence-split paragraph
C5_Witness ==
    /\ pc = "segmented"
    /\ Len(segments) >= 2
    /\ \E j \in 1..Len(Units(text, target_length)) :
           Len(Units(text, target_length)[j]) > target_length
    /\ \E k \in 1..Len(Paragraphs(clean_text(text))) :
           /\ IsLongParagraph(Paragraphs(clean_text(text))[k], target_length)
           /\ Len(split_into_sentences(Paragraphs(clean_text(text))[k])) >= 2

\* C6: the segments, concatenated in output order with all whitespace
\* removed, are the normalized input with all whitespace removed.
C6_SplitLossless ==
    pc = "segmented" =>
        RemoveWhitespace(Flatten(segments)) = RemoveWhitespace(clean_text(text))

\* a run in which a paragraph was flushed as a segment of its own and the
\* input held whitespace between the pieces
C6_Witness ==
    /\ pc = "segmented"
    /\ Len(segments) >= 2
    /\ Len(Paragraphs(clean_text(text))) >= 2
    /\ \E k \in 1..Len(Paragraphs(clean_text(text))) :
           ~IsLongParagraph(Paragraphs(clean_text(text))[k], target_length)

RECURSIVE TaggedUnitsFrom(_, _, _)
\* the units with the paragraph each came from and what it is: a sentence
\* of a paragraph that was split, or a paragraph kept whole
TaggedUnitsFrom(paragraphs, k, target) ==
    IF k > Len(paragraphs) THEN <<>>
    ELSE LET p == paragraphs[k]
             ss == split_into_sentences(p)
         IN  (IF IsLongParagraph(p, target)
              THEN [n \in 1..Len(ss) |->
                       [text |-> ss[n], paragraph |-> k, kind |-> "sentence"]]
              ELSE <<[text |-> p, paragraph |-> k, kind |-> "paragraph"]>>)
             \o TaggedUnitsFrom(paragraphs, k + 1, target)

TaggedUnits(s, target) == TaggedUnitsFrom(Paragraphs(clean_text(s)), 1, target)

RECURSIVE Layout(_, _, _, _, _)
\* where the units from the j-th on lie in the segments, read from position
\* pos of segment si: for each unit the segment that holds it and what
\* follows it there: "end" of the segment, one "space", a double-newline
\* "break"; "mismatch" when the segments are not the units in order
Layout(segs, si, pos, units, j) ==
    IF j > Len(units) THEN <<>>
    ELSE IF si > Len(segs) \/ ~MatchAt(segs[si], pos, units[j].text)
    THEN <<[segment |-> 0, gap |-> "mismatch"]>>
    ELSE LET q == pos + Len(units[j].text) IN
         IF q > Len(segs[si])
         THEN <<[segment |-> si, gap |-> "end"]>>
              \o Layout(segs, si + 1, 1, units, j + 1)
         ELSE IF MatchAt(segs[si], q, <<" ">>)
         THEN <<[segment |-> si, gap |-> "space"]>>
              \o Layout(segs, si, q + 1, units, j + 1)
         ELSE IF MatchAt(segs[si], q, <<"\n", "\n">>)
         THEN <<[segment |-> si, gap |-> "break"]>>
              \o Layout(segs, si, q + 2, units, j + 1)
         ELSE <<[segment |-> 0, gap |-> "mismatch"]>>

\* the segments are exactly the units in order, each segment one or more
\* units joined by single spaces or double newlines
LaidOut(segs, units) ==
    LET lay == Layout(segs, 1, 1, units, 1) IN
    /\ Len(lay) = Len(units)
    /\ \A j \in 1..Len(lay) : lay[j].gap # "mismatch"
    /\ {lay[j].segment : j \in 1..Len(lay)} = 1..Len(segs)

\* C11: inside every segment, two adjacent units that came from different
\* paragraphs are separated by a double newline and two adjacent sentences
\* of the same split paragraph by a single space, whatever the order of
\* split and whole paragraphs in the segment.
C11_SeparatorsFollowParagraphs ==
    pc = "segmented" =>
        LET units == TaggedUnits(text, target_length)
            lay == Layout(segments, 1, 1, units, 1)
        IN  /\ LaidOut(segments, units)
            /\ \A j \in 1..Len(units) - 1 :
                   lay[j].gap # "end" =>
                       lay[j].gap =
                           IF units[j].paragraph = units[j + 1].paragraph
                           THEN "space" ELSE "break"

\* the units that lie in segment si
UnitsHeld(lay, si) == {j \in 1..Len(lay) : lay[j].segment = si}

\* C12: every segment built from two or more units has length at most
\* target_length, separators included; so a segment longer than
\* target_length is exactly one unit: a single sentence of a split
\* paragraph, or a whole paragraph of length at most 1.5 x target_length,
\* which is then not merged with a neighbour.
C12_MergedSegmentsFit ==
    pc = "segmented" =>
        LET units == TaggedUnits(text, target_length)
            lay == Layout(segments, 1, 1, units, 1)
        IN  /\ LaidOut(segments, units)
            /\ \A si \in 1..Len(segments) :
                   /\ Cardinality(UnitsHeld(lay, si)) >= 2 =>
                          Len(segments[si]) <= target_length
                   /\ Len(segments[si]) > target_length =>
                          \E j \in 1..Len(units) :
                              /\ UnitsHeld(lay, si) = {j}
                              /\ segments[si] = units[j].text
                              /\ \/ units[j].kind = "sentence"
                                 \/ /\ units[j].kind = "paragraph"
                                    /\ 2 * Len(units[j].text) <= 3 * target_length

\* a run with a segment of two units and a paragraph longer than the target
\* that stayed a segment of its own next to a neighbour it could follow
C12_Witness ==
    /\ pc = "segmented"
    /\ LET units == TaggedUnits(text, target_length)
           lay == Layout(segments, 1, 1, units, 1)
       IN  /\ \E si \in 1..Len(segments) :
                  /\ Cardinality(UnitsHeld(lay, si)) >= 2
                  /\ Len(segments[si]) = target_length
           /\ \E j \in 1..Len(units) :
                  /\ units[j].kind = "paragraph"
                  /\ Len(units[j].text) > target_length
                  /\ Len(units) >= 2

----------------------------------------------------------------------------
(* Properties of process_war_story *)

\* empty or whitespace-only
IsBlank(t) == \A k \in 1..Len(t) : t[k] \in Whitespace

\* the text of the k-th segment of a document, empty when it has none
TextOf(doc, k) ==
    IF "text" \in DOMAIN doc.segments[k] THEN doc.segments[k].text ELSE <<>>

NumSegments(doc) == IF "segments" \in DOMAIN doc THEN Len(doc.segments) ELSE 0

\* "{name}_segment_{k:03d}.wav" under the output directory, for k < 1000
NameOfSegment(name, k) ==
    <<"voice_output", "/", name, "_segment_",
      k \div 100, (k \div 10) % 10, k % 10, ".wav">>

RECURSIVE PathsFrom(_, _, _)
\* the paths of the non-blank segments from the k-th on, in segment order
PathsFrom(doc, name, k) ==
    IF k > NumSegments(doc) THEN <<>>
    ELSE (IF IsBlank(TextOf(doc, k)) THEN <<>> ELSE <<NameOfSegment(name, k)>>)
         \o PathsFrom(doc, name, k + 1)

ExpectedPaths(doc, name) == PathsFrom(doc, name, 1)

SegmentFilesOnDisk(name) == DOMAIN disk \ {CompletePath(name)}

\* C1: process_war_story returns, in segment order, exactly the paths of the
\* segments whose text is non-empty after trimming; a blank segment produces
\* no file and no entry; the file of the segment at 1-based position k is
\* named "{name}_segment_{k:03d}.wav", whatever was skipped before it.
C1_ReturnsNonBlankSegmentPaths ==
    (entry = "process_war_story" /\ pc = "returned") =>
        /\ returned = ExpectedPaths(story_data, story_name)
        /\ SegmentFilesOnDisk(story_name)
               = {returned[k] : k \in 1..Len(returned)}

\* a returned run whose first segment was skipped and whose second was not:
\* the only file is number 002
C1_Witness ==
    /\ entry = "process_war_story"
    /\ pc = "returned"
    /\ NumSegments(story_data) = 2
    /\ IsBlank(TextOf(story_data, 1))
    /\ returned = <<NameOfSegment(story_name, 2)>>

\* the paths of the non-blank segments among the first n
PathsUpTo(doc, name, n) ==
    {NameOfSegment(name, k) : k \in {m \in 1..n : ~IsBlank(TextOf(doc, m))}}

RECURSIVE JoinFiles(_, _, _)
\* the audio on disk of the paths from the k-th on, a gap between
\* consecutive files
JoinFiles(paths, k, gap) ==
    IF k > Len(paths) THEN <<>>
    ELSE disk[paths[k]]
         \o (IF k < Len(paths) THEN gap ELSE <<>>)
         \o JoinFiles(paths, k + 1, gap)

CompleteWritten(name) ==
    \E p \in 1..Len(events) : events[p] = SaveEvent(CompletePath(name))

\* C13: process_war_story is strictly sequential: the audio of a segment is
\* saved before the synthesis of any later segment starts; the file
\* "{name}_complete.wav" is written exactly when create_full_audio is true
\* or absent and at least one segment file was produced, after the last
\* segment file was saved and from the produced files in segment order;
\* when synthesis or saving raises at a segment, the files of the earlier
\* segments are on disk and no complete file is written.
C13_StrictlySequential ==
    entry = "process_war_story" =>
        LET expected == ExpectedPaths(story_data, story_name)
            complete == CompletePath(story_name)
            gap == [k \in 1..PauseSamples(sr) |-> 0]
        IN  /\ \A p \in 1..Len(events) :
                   events[p].kind = "generate" =>
                       \A q \in 1..(p - 1) :
                           events[q].kind = "generate" =>
                               /\ events[q].i < events[p].i
                               /\ events[q].outcome = "ok"
                               /\ q + 1 < p
                               /\ events[q + 1]
                                      = SaveEvent(NameOfSegment(story_name,
                                                                events[q].i + 1))
            /\ \A p \in 1..Len(events) :
                   events[p] = SaveEvent(complete) =>
                       p = Len(events) /\ pc = "returned"
            /\ pc = "returned" =>
                   /\ CompleteWritten(story_name)
                          <=> (/\ Get(story_data, "create_full_audio", TRUE)
                               /\ expected # <<>>)
                   /\ complete \in DOMAIN disk <=> CompleteWritten(story_name)
                   /\ \A k \in 1..Len(expected) :
                          \E p \in 1..Len(events) :
                              events[p] = SaveEvent(expected[k])
                   /\ CompleteWritten(story_name) =>
                          disk[complete] = JoinFiles(expected, 1, gap)
            /\ pc = "escaped" =>
                   /\ ~CompleteWritten(story_name)
                   /\ complete \notin DOMAIN disk
                   /\ PathsUpTo(story_data, story_name, seg_index)
                          \subseteq DOMAIN disk

\* a returned run that produced two files of different audio and then
\* wrote the complete file
C13_Witness ==
    /\ entry = "process_war_story"
    /\ pc = "returned"
    /\ Len(returned) = 2
    /\ disk[returned[1]] # disk[returned[2]]
    /\ CompleteWritten(story_name)
    /\ Len(events) = 5

GenerateEvents == SelectSeq(events, LAMBDA e : e.kind = "generate")

\* C3: for every non-skipped segment the voice style handed to synthesis is
\* the segment's own voice_style if it has one, else settings.voice_style if
\* present, else "neutral"; the audio prompt is resolved in the same order
\* (segment, else settings.audio_prompt, else none); the segment's tts_params
\* are the parameter overrides.
C3_SegmentSettingsPrecedence ==
    entry = "process_war_story" =>
        /\ \A n \in 1..Len(GenerateEvents) :
               LET e == GenerateEvents[n]
                   seg == story_data.segments[e.i + 1]
                   hasSettings == "settings" \in DOMAIN story_data
               IN  /\ e.call.voice_style =
                          (IF "voice_style" \in DOMAIN seg THEN seg.voice_style
                           ELSE IF hasSettings
                                   /\ "voice_style" \in DOMAIN story_data.settings
                                THEN story_data.settings.voice_style
                           ELSE "neutral")
                   /\ e.call.audio_prompt_path =
                          (IF "audio_prompt" \in DOMAIN seg THEN seg.audio_prompt
                           ELSE IF hasSettings
                                   /\ "audio_prompt" \in DOMAIN story_data.settings
                                THEN story_data.settings.audio_prompt
                           ELSE None)
                   /\ e.call.custom_params =
                          (IF "tts_params" \in DOMAIN seg THEN seg.tts_params
                           ELSE EmptyDict)
        /\ pc = "returned" =>
               \A k \in 1..NumSegments(story_data) :
                   ~IsBlank(TextOf(story_data, k)) =>
                       \E n \in 1..Len(GenerateEvents) : GenerateEvents[n].i = k - 1

\* a returned run with a segment that names its own style and prompt over a
\* document that names others, and a segment that falls back on the document
C3_Witness ==
    /\ entry = "process_war_story"
    /\ pc = "returned"
    /\ Len(GenerateEvents) = 2
    /\ "settings" \in DOMAIN story_data
    /\ DOMAIN story_data.settings = {"voice_style", "audio_prompt"}
    /\ DOMAIN story_data.segments[1] = {"text"}
    /\ {"voice_style", "audio_prompt", "tts_params"} \subseteq DOMAIN story_data.segments[2]
    /\ GenerateEvents[1].call.voice_style = "epic"
    /\ GenerateEvents[2].call.voice_style = "epic"
    /\ GenerateEvents[1].call.audio_prompt_path = "glob.wav"
    /\ GenerateEvents[2].call.audio_prompt_path = ""

----------------------------------------------------------------------------
(* Properties of batch_process_stories *)

\* C2: batch_process_stories returns a mapping with one entry per JSON file
\* found; a document whose loading or processing raised has the empty list,
\* the exception does not leave batch_process_stories, and every other
\* document, those after it included, has the result it has on its own.
C2_BatchIsolatesFailures ==
    entry = "batch" =>
        /\ pc # "escaped"
        /\ pc = "batch_returned" =>
            /\ DOMAIN results = {json_files[k].stem : k \in 1..Len(json_files)}
            /\ \A k \in 1..Len(json_files) :
                   results[json_files[k].stem] =
                       IF json_files[k].stem \in failed THEN <<>>
                       ELSE ExpectedPaths(json_files[k].data, json_files[k].stem)

\* three documents, the second raised, the first and the third have files
C2_Witness ==
    /\ entry = "batch"
    /\ pc = "batch_returned"
    /\ Len(json_files) = 3
    /\ failed = {json_files[2].stem}
    /\ json_files[2].loads
    /\ results[json_files[1].stem] # <<>>
    /\ results[json_files[2].stem] = <<>>
    /\ results[json_files[3].stem] # <<>>

----------------------------------------------------------------------------
(* Properties of auto-ingestion and of the entry points *)

\* pattern[i mod len(pattern)] for the 0-based segment index i
PatternAt(pattern, idx) == pattern[(idx % Len(pattern)) + 1]

\* C7: in a document built by auto_ingest_text_file with a non-empty
\* voice_style_pattern, segment i (0-based) is assigned
\* pattern[i mod len(pattern)]; the stored segment has a voice_style field
\* exactly when that value is not "neutral"; and the style process_war_story
\* resolves for segment i is pattern[i mod len(pattern)].
C7_VoiceStyleCycles ==
    (entry = "process_text_file_directly" /\ pc \in {"loop", "returned", "escaped"}) =>
        /\ \A k \in 1..NumSegments(story_data) :
               LET seg == story_data.segments[k]
                   style == PatternAt(voice_style_pattern, k - 1)
               IN  /\ ("voice_style" \in DOMAIN seg) <=> (style # "neutral")
                   /\ "voice_style" \in DOMAIN seg => seg.voice_style = style
        /\ \A n \in 1..Len(GenerateEvents) :
               GenerateEvents[n].call.voice_style
                   = PatternAt(voice_style_pattern, GenerateEvents[n].i)
        /\ pc = "returned" => Len(GenerateEvents) = NumSegments(story_data)

\* the pattern [neutral, calm, neutral] over 5 segments: the styles resolved
\* are neutral, calm, neutral, neutral, calm, and only the second and the
\* fifth stored segment have the field
C7_Witness ==
    /\ entry = "process_text_file_directly"
    /\ pc = "returned"
    /\ voice_style_pattern = <<"neutral", "calm", "neutral">>
    /\ NumSegments(story_data) = 5
    /\ [n \in 1..Len(GenerateEvents) |-> GenerateEvents[n].call.voice_style]
           = <<"neutral", "calm", "neutral", "neutral", "calm">>
    /\ {k \in 1..5 : "voice_style" \in DOMAIN story_data.segments[k]} = {2, 5}

\* C8: on every entry path an audio-prompt path that does not exist is never
\* handed to the synthesis call: every call on the model is made without a
\* prompt or with one that exists.
C8_MissingPromptNotUsed ==
    \A n \in 1..Len(GenerateEvents) :
        \/ GenerateEvents[n].call.model_prompt = None
        \/ GenerateEvents[n].call.model_prompt \in fs

----------------------------------------------------------------------------
(* Properties of concatenate_segments *)

RECURSIVE SumLengths(_, _)
SumLengths(files, k) ==
    IF k > Len(files) THEN 0
    ELSE Len(AudioStore[files[k]]) + SumLengths(files, k + 1)

RECURSIVE JoinWithGaps(_, _, _)
\* the files' audio in list order, a gap after each entry but the last
JoinWithGaps(files, k, gap) ==
    IF k > Len(files) THEN <<>>
    ELSE AudioStore[files[k]]
         \o (IF k < Len(files) THEN gap ELSE <<>>)
         \o JoinWithGaps(files, k + 1, gap)

\* C4: for every list of N >= 1 paths, the combined file is the files' audio
\* in list order with one silence gap between each pair of consecutive
\* entries and none after the last: N-1 gaps, so its length is the sum of
\* the entries' lengths plus (N-1) times the pause length in samples.
C4_ConcatenationGaps ==
    (entry = "concatenate_segments" /\ pc = "returned") =>
        /\ disk[<<"out.wav">>]
               = JoinWithGaps(audio_files, 1, [k \in 1..PauseSamples(sr) |-> 0])
        /\ Len(disk[<<"out.wav">>])
               = SumLengths(audio_files, 1)
                 + (Len(audio_files) - 1) * PauseSamples(sr)

----------------------------------------------------------------------------
(* Properties of generate_segment_audio *)

\* the dict base with the entries of overrides laid over it
Overlay(base, overrides) ==
    [k \in DOMAIN base \cup DOMAIN overrides |->
        IF k \in DOMAIN overrides THEN overrides[k] ELSE base[k]]

\* the preset a style name stands for, in the presets as config.py has them
NamedPreset(style) ==
    IF style \in DOMAIN InitialVoicePresets
    THEN InitialVoicePresets[style] ELSE InitialVoicePresets["neutral"]

\* C14: after any sequence of generate_segment_audio calls, VOICE_PRESETS is
\* what it was initially and each caller's custom_params is what was passed
\* in; the parameters handed to the model in each call are the named preset
\* (the "neutral" one for an unknown style) with that call's own overrides
\* laid over it, whatever the earlier calls were.
C14_PresetsNotMutated ==
    entry = "generate_segment_audio" =>
        /\ VOICE_PRESETS = InitialVoicePresets
        /\ \A p \in 1..Len(events) :
               LET call == events[p].call IN
               /\ call.custom_params_after = call.custom_params
               /\ call.params = Overlay(NamedPreset(call.voice_style),
                                        call.custom_params)

\* three calls: "calm" with an override, "calm" again without one, and an
\* unknown style with an override of its own
C14_Witness ==
    /\ entry = "generate_segment_audio"
    /\ Len(events) = 3
    /\ events[1].call.voice_style = "calm"
    /\ events[1].call.params = [exaggeration |-> 9, cfg_weight |-> 7]
    /\ events[2].call.voice_style = "calm"
    /\ events[2].call.params = [exaggeration |-> 3, cfg_weight |-> 7]
    /\ events[3].call.voice_style = "epic"
    /\ events[3].call.params
           = [exaggeration |-> 5, cfg_weight |-> 1, temperature |-> 8]

====
